---- MODULE Spec2Model ----
(***************************************************************************)
(* Model of lib/helper/generatorHelper.py of Hasal: the measurement        *)
(* pipeline driven by calculate() (validate_data, run_modules,             *)
(* run_generators, output_result, output_video, output_waveform_info) and  *)
(* the per-test-method statistics record kept in the results document.     *)
(*                                                                         *)
(* Time is counted in frames: the frame whose index is t carries           *)
(* time_seq t, so an event's frame path is identified with its time_seq.   *)
(***************************************************************************)
EXTENDS Integers, Sequences, FiniteSets, TLC

VARIABLES
    pc,                \* where the current call of calculate stands
    runs,              \* number of calls of calculate so far (names the run)
    output_fp,         \* the results document: missing, corrupt, or a record
    stat_file,         \* the status document env.DEFAULT_STAT_RESULT
    validate_result,   \* what validate_data returned to calculate
    calculator_result, \* running_time_result of the run; <<>> stands for None
    waveform,          \* the waveform argument of calculate
    img_list,          \* the frames present in the run's image directory
    copied,            \* the frames output_video copied to tempdir, in order
    encoder,           \* exit of the encoder run by output_video
    clip,              \* the run's converted video: absent, present or moved
    uploaded,          \* the run's clip is in the upload folder
    waveform_fp,       \* the run's waveform document
    trace,             \* the steps calculate executed in the current run
    folded,            \* run_time of every run persisted by output_result
    tempdir,           \* the scratch directory of output_video
    resolution_error,  \* the stage whose resolution raised, "" when none did
    last_detect,       \* the outlier pass of the last output_result call
    outlier_check_point, \* the checkpoint handed to output_result
    extended_range,    \* output_video, step by step: the margin in frames
    start_index,       \* output_video, step by step: first index of the window
    end_index,         \* output_video, step by step: last index of the window
    img_index,         \* output_video, step by step: the index copied next
    generator_settings,\* run_generators: the generator names in key order
    generator_result,  \* run_generators: the accumulating result map
    prior_results,     \* run_generators: the map each generator was handed
    proc_pc,           \* concurrent output_result calls: where each stands
    proc_result,       \* concurrent output_result calls: the document each read
    proc_run           \* concurrent output_result calls: the run each folds

\* the state of one calculate call after another
calcVars == <<pc, runs, output_fp, stat_file, validate_result, calculator_result,
              waveform, img_list, copied, encoder, clip, uploaded, waveform_fp,
              trace, folded, tempdir, resolution_error, last_detect,
              outlier_check_point>>

\* the position of output_video inside its copy loop
stepVars == <<extended_range, start_index, end_index, img_index>>

\* the state of one run_generators call
genVars == <<generator_settings, generator_result, prior_results>>

\* the state of two processes inside output_result
procVars == <<proc_pc, proc_result, proc_run>>

\* what the calls of calculate leave alone
unitVars == <<stepVars, genVars, procVars>>

vars == <<calcVars, stepVars, genVars, procVars>>

(* ---------------------------- bounds ----------------------------------- *)

\* number of calculate() calls explored
MaxRuns == 4
\* largest time_seq (frame index) an event marker can carry
MaxTime == 2
\* the largest margin (Environment.DEFAULT_VIDEO_RECORDING_FPS) output_video is
\* stepped with
MaxMargin == 2
\* how many runs are folded into one results document, run after run
MaxFolds == 4
\* the largest outlier_check_point output_result is called with
MaxCheckPoint == 4
\* the largest time_seq of an end marker in the runs folded one after another
MaxFoldTime == 4

(* ------------------------ program constants ---------------------------- *)

\* env.DEFAULT_OUTLIER_CHECK_POINT, handed to output_result by calculate
DEFAULT_OUTLIER_CHECK_POINT == 3
\* Environment.DEFAULT_VIDEO_RECORDING_FPS, the margin of output_video
DEFAULT_VIDEO_RECORDING_FPS == 1
\* the bound of the outlier rule is OutlierBoundNum / OutlierBoundDen
\* standard deviations around the mean
OutlierBoundNum == 5
OutlierBoundDen == 4

DEFAULT_FPS_VALIDATOR_NAME == "FPSValidator"
DEFAULT_FILEEXIST_VALIDATOR_NAME == "FileExistValidator"
DEFAULT_DCTRUNTIME_GENERATOR_NAME == "DctRunTimeGenerator"
DEFAULT_CV2_CONVERTER_NAME == "Cv2Converter"
DEFAULT_SAMPLE_CONVERTER_NAME == "SampleConverter"

\* the keys of DEFAULT_VALIDATOR_SETTINGS['modules']
ValidatorNames == {DEFAULT_FPS_VALIDATOR_NAME, DEFAULT_FILEEXIST_VALIDATOR_NAME}

\* the orders in which .keys() can enumerate the validators
ValidatorOrders ==
    {<<DEFAULT_FPS_VALIDATOR_NAME, DEFAULT_FILEEXIST_VALIDATOR_NAME>>,
     <<DEFAULT_FILEEXIST_VALIDATOR_NAME, DEFAULT_FPS_VALIDATOR_NAME>>}

\* the validators importlib may fail to resolve during one validate_data call
UnresolvedValidators == {{}} \cup {{n} : n \in ValidatorNames}

\* env.test_name: the key of the record in the results document
test_method_name == "test_method"

(* ----------------------------- helpers --------------------------------- *)

Max(a, b) == IF a > b THEN a ELSE b
Min(a, b) == IF a < b THEN a ELSE b

RECURSIVE SumSeq(_)
SumSeq(s) == IF s = <<>> THEN 0 ELSE Head(s) + SumSeq(Tail(s))

\* the values a marker's time_seq can take
Times == 1..MaxTime

\* the frames the converter writes: indices 0 .. MaxTime + 1
AllFrames == 0..(MaxTime + 1)

\* the value of a path variable that was never assigned (None)
NoneFp == -1

OptEvent(name, t) ==
    IF t = 0 THEN <<>> ELSE <<[name |-> name, time_seq |-> t]>>

\* what a generator can return: the events of one run in capture order, with
\* at most one start and one end marker; <<>> when it found no usable signal
GeneratorResults ==
    {OptEvent("start", m[1]) \o OptEvent("other", m[2]) \o OptEvent("end", m[3]) :
        m \in {x \in (0..MaxTime) \X (0..1) \X (0..MaxTime) :
                  x[1] = 0 \/ x[3] = 0 \/ x[1] <= x[3]}}

(* ------------------------- output_result ------------------------------- *)

\* the loop of lines 173-177: the time_seq of the last event holding the key,
\* or the initial 0 when no event holds it
RECURSIVE MarkerTime(_, _)
MarkerTime(evs, name) ==
    IF evs = <<>> THEN 0
    ELSE IF evs[Len(evs)].name = name THEN evs[Len(evs)].time_seq
    ELSE MarkerTime(SubSeq(evs, 1, Len(evs) - 1), name)

RunTime(evs) == MarkerTime(evs, "end") - MarkerTime(evs, "start")

\* run_time_dict: the TimingSample of a run; folder (test_output) names the run
RunTimeDict(evs, folder) == [run_time |-> RunTime(evs), folder |-> folder]

\* sorted(..., key=run_time): stable, ascending
RECURSIVE InsertSorted(_, _)
InsertSorted(s, x) ==
    IF s = <<>> THEN <<x>>
    ELSE IF x.run_time < Head(s).run_time THEN <<x>> \o s
    ELSE <<Head(s)>> \o InsertSorted(Tail(s), x)

RECURSIVE SortByRunTime(_)
SortByRunTime(s) ==
    IF s = <<>> THEN <<>>
    ELSE InsertSorted(SortByRunTime(SubSeq(s, 1, Len(s) - 1)), s[Len(s)])

RECURSIVE SumRunTime(_)
SumRunTime(s) == IF s = <<>> THEN 0 ELSE Head(s).run_time + SumRunTime(Tail(s))

RECURSIVE SumSqRunTime(_)
SumSqRunTime(s) ==
    IF s = <<>> THEN 0
    ELSE Head(s).run_time * Head(s).run_time + SumSqRunTime(Tail(s))

\* a sample is an outlier when it lies more than OutlierBoundNum/OutlierBoundDen
\* standard deviations from the mean of seq; in integers, with n = Len(seq):
\*   (x - S/n)^2 > k^2 * (n*Q - S^2) / n^2
IsOutlier(x, seq) ==
    LET n == Len(seq)
        S == SumRunTime(seq)
        Q == SumSqRunTime(seq)
        d == n * x.run_time - S
    IN  OutlierBoundDen * OutlierBoundDen * d * d
            > OutlierBoundNum * OutlierBoundNum * (n * Q - S * S)

\* outlier().detect: the retained samples sorted ascending by run_time, and
\* the samples removed as outliers
Detect(seq) ==
    LET sorted == SortByRunTime(seq)
        Out(x) == IsOutlier(x, seq)
        Keep(x) == ~IsOutlier(x, seq)
    IN  [time_list |-> SelectSeq(sorted, Keep),
         outlier   |-> SelectSeq(sorted, Out)]

\* the results document before any run of the test method
NoRecord ==
    [present |-> FALSE, total_run_no |-> 0, total_time |-> 0, error_no |-> 0,
     time_list |-> <<>>, outlier |-> <<>>, max_time |-> 0, min_time |-> 0]

\* Reaggregate with the outlier list replaced by what the pass removed
ReaggregateReplacesOutlier(rec, check_point) ==
    IF Len(rec.time_list) >= check_point
    THEN LET d == Detect(rec.time_list)
         IN  IF d.time_list = <<>>
             THEN [raised |-> TRUE, rec |-> rec,
                   detected |-> TRUE, tmp_outlier |-> d.outlier]
             ELSE [raised |-> FALSE,
                   rec |-> [rec EXCEPT
                       !.time_list = d.time_list,
                       !.outlier = d.outlier,
                       !.min_time = d.time_list[1].run_time,
                       !.max_time = d.time_list[Len(d.time_list)].run_time],
                   detected |-> TRUE, tmp_outlier |-> d.outlier]
    ELSE [raised |-> FALSE, rec |-> rec, detected |-> FALSE, tmp_outlier |-> <<>>]

\* Reaggregate with the outliers taken out of time_list in place, the
\* retained samples left in the order they were appended
ReaggregateKeepsOrder(rec, check_point) ==
    IF Len(rec.time_list) >= check_point
    THEN LET d == Detect(rec.time_list)
             Keep(x) == ~IsOutlier(x, rec.time_list)
         IN  IF d.time_list = <<>>
             THEN [raised |-> TRUE, rec |-> rec,
                   detected |-> TRUE, tmp_outlier |-> d.outlier]
             ELSE [raised |-> FALSE,
                   rec |-> [rec EXCEPT
                       !.time_list = SelectSeq(rec.time_list, Keep),
                       !.outlier = rec.outlier \o d.outlier,
                       !.min_time = d.time_list[1].run_time,
                       !.max_time = d.time_list[Len(d.time_list)].run_time],
                   detected |-> TRUE, tmp_outlier |-> d.outlier]
    ELSE [raised |-> FALSE, rec |-> rec, detected |-> FALSE, tmp_outlier |-> <<>>]

\* lines 208-214: the outlier pass once time_list has reached the checkpoint
\* detected tells whether calc_obj.detect was called, tmp_outlier is what it
\* removed
Reaggregate(rec, check_point) ==
    IF Len(rec.time_list) >= check_point
    THEN LET d == Detect(rec.time_list)
         IN  IF d.time_list = <<>>
             THEN [raised |-> TRUE, rec |-> rec,
                   detected |-> TRUE, tmp_outlier |-> d.outlier]
             ELSE [raised |-> FALSE,
                   rec |-> [rec EXCEPT
                       !.time_list = d.time_list,
                       !.outlier = rec.outlier \o d.outlier,
                       !.min_time = d.time_list[1].run_time,
                       !.max_time = d.time_list[Len(d.time_list)].run_time],
                   detected |-> TRUE, tmp_outlier |-> d.outlier]
    ELSE [raised |-> FALSE, rec |-> rec, detected |-> FALSE, tmp_outlier |-> <<>>]

\* FoldExisting with total_time assigned instead of accumulated
FoldExistingOverwritesTotal(rec, run_time_dict) ==
    LET run_time == run_time_dict.run_time
    IN  [rec EXCEPT
            !.total_run_no = rec.total_run_no + 1,
            !.total_time = run_time,
            !.error_no = IF run_time = 0 THEN rec.error_no + 1 ELSE rec.error_no,
            !.time_list = IF run_time = 0 THEN rec.time_list
                          ELSE Append(rec.time_list, run_time_dict),
            !.max_time = IF run_time > rec.max_time THEN run_time ELSE rec.max_time,
            !.min_time = IF run_time < rec.min_time THEN run_time ELSE rec.min_time]

\* FoldExisting with the sample appended whatever its run_time
FoldExistingAppendsErrors(rec, run_time_dict) ==
    LET run_time == run_time_dict.run_time
    IN  [rec EXCEPT
            !.total_run_no = rec.total_run_no + 1,
            !.total_time = rec.total_time + run_time,
            !.error_no = IF run_time = 0 THEN rec.error_no + 1 ELSE rec.error_no,
            !.time_list = Append(rec.time_list, run_time_dict),
            !.max_time = IF run_time > rec.max_time THEN run_time ELSE rec.max_time,
            !.min_time = IF run_time < rec.min_time THEN run_time ELSE rec.min_time]

\* lines 196-207: the fold into the record the document already holds
FoldExisting(rec, run_time_dict) ==
    LET run_time == run_time_dict.run_time
    IN  [rec EXCEPT
            !.total_run_no = rec.total_run_no + 1,
            !.total_time = rec.total_time + run_time,
            !.error_no = IF run_time = 0 THEN rec.error_no + 1 ELSE rec.error_no,
            !.time_list = IF run_time = 0 THEN rec.time_list
                          ELSE Append(rec.time_list, run_time_dict),
            !.max_time = IF run_time > rec.max_time THEN run_time ELSE rec.max_time,
            !.min_time = IF run_time < rec.min_time THEN run_time ELSE rec.min_time]

\* lines 215-233: the first record of the test method
FoldNew(run_time_dict) ==
    LET run_time == run_time_dict.run_time
    IN  [present |-> TRUE, total_run_no |-> 1, total_time |-> run_time,
         error_no |-> IF run_time = 0 THEN 1 ELSE 0,
         time_list |-> IF run_time = 0 THEN <<>> ELSE <<run_time_dict>>,
         outlier |-> <<>>,
         max_time |-> run_time,
         min_time |-> run_time]

\* lines 196-233: the record after the run is folded in; raised when the
\* code indexes an empty time_list
Fold(rec, run_time_dict, check_point) ==
    IF rec.present
    THEN Reaggregate(FoldExisting(rec, run_time_dict), check_point)
    ELSE [raised |-> FALSE, rec |-> FoldNew(run_time_dict),
          detected |-> FALSE, tmp_outlier |-> <<>>]

\* no outlier pass was run
NoDetect == [detected |-> FALSE, tmp_outlier |-> <<>>]

\* lines 163-167: the document output_result starts from; json.load raises on
\* a file that is not JSON
ReadResult(fp) ==
    IF fp.state = "missing" THEN [raised |-> FALSE, result |-> NoRecord]
    ELSE IF fp.state = "corrupt" THEN [raised |-> TRUE, result |-> NoRecord]
    ELSE [raised |-> FALSE, result |-> fp.result]

(* -------------------------- validate_data ------------------------------ *)

\* lines 44-56: the validators in enumeration order; each is resolved
\* (lines 45-46) right before it runs, and the first failing one returns at
\* once.  ran lists the validators whose validate() was called, dumped tells
\* whether line 59 was reached, raised names the validator whose module or
\* class could not be resolved
RECURSIVE ValidateLoop(_, _, _, _, _)
ValidateLoop(order, pass, missing, i, acc) ==
    IF i > Len(order)
    THEN [acc EXCEPT !.validate_result = TRUE, !.dumped = TRUE]
    ELSE IF order[i] \in missing
         THEN [acc EXCEPT !.raised = order[i]]
    ELSE IF ~pass[order[i]]
         THEN [acc EXCEPT !.ran = Append(acc.ran, order[i])]
         ELSE ValidateLoop(order, pass, missing, i + 1,
                  [acc EXCEPT !.ran = Append(acc.ran, order[i]),
                              !.entries = acc.entries \cup {order[i]}])

\* line 43
NoValidation ==
    [validate_result |-> FALSE, entries |-> {}, ran |-> <<>>, dumped |-> FALSE,
     raised |-> ""]

\* validate_data with the dump reached on the failing path too
ValidateDataDumpsFailure(order, pass, missing) ==
    LET r == ValidateLoop(order, pass, missing, 1, NoValidation)
    IN  IF r.raised = "" THEN [r EXCEPT !.dumped = TRUE] ELSE r

\* lines 43-60
ValidateData(order, pass, missing) ==
    ValidateLoop(order, pass, missing, 1, NoValidation)

\* what validate_data can return: one outcome for every order in which the
\* validators are enumerated, every verdict of each validator and every
\* validator that fails to resolve
ValidationOutcomes ==
    {ValidateData(order, pass, missing) :
        order \in ValidatorOrders, pass \in [ValidatorNames -> BOOLEAN],
        missing \in UnresolvedValidators}

\* the status document before anything wrote it
NoStat ==
    [exists |-> FALSE, validate_result |-> FALSE, entries |-> {},
     fps_stat |-> FALSE, time_list_counter |-> -1]

\* dump_data_to_json_file(status_file, validator_result)
DumpDataToJsonFile(validator_result) ==
    [exists |-> TRUE, validate_result |-> validator_result.validate_result,
     entries |-> validator_result.entries,
     fps_stat |-> FALSE, time_list_counter |-> -1]

(* --------------------------- output_video ------------------------------ *)

\* lines 123-130: the path held by the last event that has the key, or None
RECURSIVE MarkerFp(_, _)
MarkerFp(evs, name) ==
    IF evs = <<>> THEN NoneFp
    ELSE IF evs[Len(evs)].name = name THEN evs[Len(evs)].time_seq
    ELSE MarkerFp(SubSeq(evs, 1, Len(evs) - 1), name)

\* os.listdir + sort(key=natural_keys): the frames in ascending order
RECURSIVE SortedListing(_)
SortedListing(S) ==
    IF S = {} THEN <<>>
    ELSE LET m == CHOOSE x \in S : \A y \in S : x <= y
         IN  <<m>> \o SortedListing(S \ {m})

\* list.index: the 0-based position of a frame in a listing
ListIndex(listing, f) ==
    (CHOOSE i \in 1..Len(listing) : listing[i] = f) - 1

InListing(listing, f) == \E i \in 1..Len(listing) : listing[i] = f

\* VideoRange with the window not widened by the margin
VideoRangeNoMargin(evs, frames, margin) ==
    LET start_fp == MarkerFp(evs, "start")
        end_fp == MarkerFp(evs, "end")
        listing == SortedListing(frames)
    IN  IF start_fp = NoneFp /\ end_fp = NoneFp
        THEN [outcome |-> "none", first |-> 0, last |-> -1]
        ELSE IF start_fp = NoneFp \/ end_fp = NoneFp
        THEN [outcome |-> "raised", first |-> 0, last |-> -1]
        ELSE IF ~InListing(listing, start_fp) \/ ~InListing(listing, end_fp)
        THEN [outcome |-> "raised", first |-> 0, last |-> -1]
        ELSE [outcome |-> "range",
              first |-> Max(0, ListIndex(listing, start_fp)),
              last |-> Min(Len(listing) - 1, ListIndex(listing, end_fp))]

\* lines 131-142: what output_video finds before it copies anything: "none"
\* (return None), "raised", or "range" with the first and last index to copy
VideoRange(evs, frames, margin) ==
    LET start_fp == MarkerFp(evs, "start")
        end_fp == MarkerFp(evs, "end")
        listing == SortedListing(frames)
    IN  IF start_fp = NoneFp /\ end_fp = NoneFp
        THEN [outcome |-> "none", first |-> 0, last |-> -1]
        ELSE IF start_fp = NoneFp \/ end_fp = NoneFp
        THEN [outcome |-> "raised", first |-> 0, last |-> -1]
        ELSE IF ~InListing(listing, start_fp) \/ ~InListing(listing, end_fp)
        THEN [outcome |-> "raised", first |-> 0, last |-> -1]
        ELSE [outcome |-> "range",
              first |-> Max(0, ListIndex(listing, start_fp) - margin),
              last |-> Min(Len(listing) - 1, ListIndex(listing, end_fp) + margin)]

\* lines 131-149: what output_video does before it calls the encoder:
\* "none" (return None), "raised", or "copied" with the frames copied to tempdir
VideoWindow(evs, frames) ==
    LET listing == SortedListing(frames)
        r == VideoRange(evs, frames, DEFAULT_VIDEO_RECORDING_FPS)
    IN  IF r.outcome = "range"
        THEN [outcome |-> "copied",
              copied |-> [count \in 1..(r.last - r.first + 1) |->
                             listing[r.first + count]]]
        ELSE [outcome |-> r.outcome, copied |-> <<>>]

(* ----------------------- output_waveform_info -------------------------- *)

\* VideoFluency.frame_difference: one difference value per pair of
\* consecutive frames of the directory
FrameDifference(frames) ==
    IF frames = {} THEN 0 ELSE Cardinality(frames) - 1

\* the waveform document before output_waveform_info wrote it
NoWaveform == [written |-> FALSE, data |-> 0, img_list |-> {}]

\* WaveformInfo with the frame of the first marker deleted too
WaveformInfoDropsStart(evs, frames, waveform_doc) ==
    IF Len(evs) = 2
    THEN LET listing == SortedListing(frames)
             start_fn == evs[1].time_seq
             end_fn == evs[2].time_seq
         IN  IF ~InListing(listing, start_fn) \/ ~InListing(listing, end_fn)
             THEN [raised |-> TRUE, frames |-> frames, doc |-> waveform_doc]
             ELSE LET wf_start_index == ListIndex(listing, start_fn)
                      wf_end_index == ListIndex(listing, end_fn)
                      kept == {listing[i + 1] : i \in
                                 {j \in 0..(Len(listing) - 1) :
                                     ~(j <= wf_start_index \/ j > wf_end_index)}}
                  IN  [raised |-> FALSE, frames |-> kept,
                       doc |-> [written |-> TRUE,
                                data |-> FrameDifference(kept),
                                img_list |-> kept]]
    ELSE [raised |-> FALSE, frames |-> frames, doc |-> waveform_doc]

\* lines 105-119: the frames left in img_dp and the waveform document
WaveformInfo(evs, frames, waveform_doc) ==
    IF Len(evs) = 2
    THEN LET listing == SortedListing(frames)
             start_fn == evs[1].time_seq
             end_fn == evs[2].time_seq
         IN  IF ~InListing(listing, start_fn) \/ ~InListing(listing, end_fn)
             THEN [raised |-> TRUE, frames |-> frames, doc |-> waveform_doc]
             ELSE LET wf_start_index == ListIndex(listing, start_fn)
                      wf_end_index == ListIndex(listing, end_fn)
                      kept == {listing[i + 1] : i \in
                                 {j \in 0..(Len(listing) - 1) :
                                     ~(j < wf_start_index \/ j > wf_end_index)}}
                  IN  [raised |-> FALSE, frames |-> kept,
                       doc |-> [written |-> TRUE,
                                data |-> FrameDifference(kept),
                                img_list |-> kept]]
    ELSE [raised |-> FALSE, frames |-> frames, doc |-> waveform_doc]

(* ------------------------------ state ---------------------------------- *)

\* the positions at which a call of calculate has ended
Ended == {"idle", "discarded", "done", "raised"}

\* no call of calculate was made yet
CalcIdle ==
    /\ pc = "idle"
    /\ runs = 0
    /\ stat_file = NoStat
    /\ validate_result = NoValidation
    /\ calculator_result = <<>>
    /\ waveform = 0
    /\ img_list = {}
    /\ copied = <<>>
    /\ encoder = "not_run"
    /\ clip = "absent"
    /\ uploaded = FALSE
    /\ waveform_fp = NoWaveform
    /\ trace = <<>>
    /\ folded = <<>>
    /\ tempdir = "none"
    /\ resolution_error = ""
    /\ last_detect = NoDetect

\* output_video is not inside its copy loop
StepIdle ==
    /\ extended_range = DEFAULT_VIDEO_RECORDING_FPS
    /\ start_index = 0
    /\ end_index = -1
    /\ img_index = 0

\* run_generators was not called
GenIdle ==
    /\ generator_settings = <<>>
    /\ generator_result = {}
    /\ prior_results = {}

\* no process is inside output_result
ProcIdle ==
    /\ proc_pc = <<>>
    /\ proc_result = <<>>
    /\ proc_run = <<>>

Init ==
    /\ CalcIdle
    /\ output_fp \in {[state |-> "missing", result |-> NoRecord],
                      [state |-> "corrupt", result |-> NoRecord]}
    /\ outlier_check_point = DEFAULT_OUTLIER_CHECK_POINT
    /\ StepIdle
    /\ GenIdle
    /\ ProcIdle

(* ----------------------------- calculate ------------------------------- *)

\* lines 266-275: a new run starts on fresh per-run paths and validates
Calculate ==
    /\ pc \in Ended
    /\ runs < MaxRuns
    /\ \E validator_result \in ValidationOutcomes, wf \in {0, 1} :
          /\ validate_result' = validator_result
          /\ stat_file' = IF validator_result.dumped
                          THEN DumpDataToJsonFile(validator_result)
                          ELSE stat_file
          /\ resolution_error' = validator_result.raised
          /\ pc' = IF validator_result.raised = "" THEN "validated"
                   ELSE "raised"
          /\ waveform' = wf
    /\ runs' = runs + 1
    /\ calculator_result' = <<>>
    /\ img_list' = {}
    /\ copied' = <<>>
    /\ encoder' = "not_run"
    /\ clip' = "absent"
    /\ uploaded' = FALSE
    /\ waveform_fp' = NoWaveform
    /\ tempdir' = "none"
    /\ last_detect' = NoDetect
    /\ trace' = <<"validate_data">>
    /\ UNCHANGED <<output_fp, folded, outlier_check_point, unitVars>>

\* line 277, condition false: calculate returns without doing anything else
ReturnInvalid ==
    /\ pc = "validated"
    /\ ~validate_result.validate_result
    /\ pc' = "discarded"
    /\ UNCHANGED <<runs, output_fp, stat_file, validate_result, calculator_result,
                   waveform, img_list, copied, encoder, clip, uploaded, waveform_fp,
                   trace, folded, tempdir, resolution_error, last_detect,
                   outlier_check_point, unitVars>>

\* RunConverter without the test of line 277
RunConverterUnguarded ==
    /\ pc = "validated"
    /\ \E resolved \in BOOLEAN :
          IF resolved
          THEN /\ img_list' = AllFrames
               /\ pc' = "converted"
               /\ trace' = Append(trace, "converter")
               /\ UNCHANGED resolution_error
          ELSE /\ pc' = "raised"
               /\ resolution_error' = DEFAULT_CV2_CONVERTER_NAME
               /\ UNCHANGED <<img_list, trace>>
    /\ UNCHANGED <<runs, output_fp, stat_file, validate_result, calculator_result,
                   waveform, copied, encoder, clip, uploaded, waveform_fp, folded,
                   tempdir, last_detect, outlier_check_point, unitVars>>

\* lines 277-286: the converter is resolved (line 72), then extracts every
\* frame of the video
RunConverter ==
    /\ pc = "validated"
    /\ validate_result.validate_result
    /\ \E resolved \in BOOLEAN :
          IF resolved
          THEN /\ img_list' = AllFrames
               /\ pc' = "converted"
               /\ trace' = Append(trace, "converter")
               /\ UNCHANGED resolution_error
          ELSE /\ pc' = "raised"
               /\ resolution_error' = DEFAULT_CV2_CONVERTER_NAME
               /\ UNCHANGED <<img_list, trace>>
    /\ UNCHANGED <<runs, output_fp, stat_file, validate_result, calculator_result,
                   waveform, copied, encoder, clip, uploaded, waveform_fp, folded,
                   tempdir, last_detect, outlier_check_point, unitVars>>

\* lines 288-297: the sample converter is resolved (line 72), then runs
RunSample ==
    /\ pc = "converted"
    /\ \E resolved \in BOOLEAN :
          IF resolved
          THEN /\ pc' = "sampled"
               /\ trace' = Append(trace, "sample")
               /\ UNCHANGED resolution_error
          ELSE /\ pc' = "raised"
               /\ resolution_error' = DEFAULT_SAMPLE_CONVERTER_NAME
               /\ UNCHANGED trace
    /\ UNCHANGED <<runs, output_fp, stat_file, validate_result, calculator_result,
                   waveform, img_list, copied, encoder, clip, uploaded, waveform_fp,
                   folded, tempdir, last_detect, outlier_check_point, unitVars>>

\* lines 299-310: the generator is resolved (line 91), then runs; an empty
\* result leaves calculator_result None (<<>>)
RunGenerators ==
    /\ pc = "sampled"
    /\ \E resolved \in BOOLEAN :
          IF resolved
          THEN /\ \E result \in GeneratorResults : calculator_result' = result
               /\ pc' = "generated"
               /\ trace' = Append(trace, "generator")
               /\ UNCHANGED resolution_error
          ELSE /\ pc' = "raised"
               /\ resolution_error' = DEFAULT_DCTRUNTIME_GENERATOR_NAME
               /\ UNCHANGED <<calculator_result, trace>>
    /\ UNCHANGED <<runs, output_fp, stat_file, validate_result, waveform,
                   img_list, copied, encoder, clip, uploaded, waveform_fp, folded,
                   tempdir, last_detect, outlier_check_point, unitVars>>

\* lines 313-317: fps_stat goes into the status document (opened "r+")
WriteFpsStat ==
    /\ pc = "generated"
    /\ IF stat_file.exists
       THEN /\ stat_file' = [stat_file EXCEPT !.fps_stat = TRUE]
            /\ pc' = "stat"
       ELSE /\ stat_file' = stat_file
            /\ pc' = "raised"
    /\ trace' = Append(trace, "fps_stat")
    /\ UNCHANGED <<runs, output_fp, validate_result, calculator_result, waveform,
                   img_list, copied, encoder, clip, uploaded, waveform_fp, folded,
                   tempdir, resolution_error, last_detect, outlier_check_point,
                   unitVars>>

\* line 319, condition false
ReturnNoResult ==
    /\ pc = "stat"
    /\ calculator_result = <<>>
    /\ pc' = "done"
    /\ UNCHANGED <<runs, output_fp, stat_file, validate_result, calculator_result,
                   waveform, img_list, copied, encoder, clip, uploaded, waveform_fp,
                   trace, folded, tempdir, resolution_error, last_detect,
                   outlier_check_point, unitVars>>

\* lines 161-250, called at line 320
OutputResult ==
    /\ pc = "stat"
    /\ calculator_result # <<>>
    /\ trace' = Append(trace, "output_result")
    /\ LET read == ReadResult(output_fp)
           run_time_dict == RunTimeDict(calculator_result, runs)
           fold == Fold(read.result, run_time_dict, outlier_check_point)
       IN  IF read.raised \/ fold.raised
           THEN /\ pc' = "raised"
                /\ UNCHANGED <<output_fp, stat_file, folded, last_detect>>
           ELSE /\ output_fp' = [state |-> "ok", result |-> fold.rec]
                /\ folded' = Append(folded, run_time_dict.run_time)
                /\ last_detect' = [detected |-> fold.detected,
                                   tmp_outlier |-> fold.tmp_outlier]
                /\ IF stat_file.exists
                   THEN /\ stat_file' = [stat_file EXCEPT
                               !.time_list_counter = Len(fold.rec.time_list)]
                        /\ pc' = "folded"
                   ELSE /\ stat_file' = stat_file
                        /\ pc' = "raised"
    /\ UNCHANGED <<runs, validate_result, calculator_result, waveform, img_list,
                   copied, encoder, clip, uploaded, waveform_fp, tempdir,
                   resolution_error, outlier_check_point, unitVars>>

\* lines 122-158, called at line 324; shutil.copyfile may raise on any frame
\* of the window (nothing catches it, tempdir stays); the encoder (os.system)
\* may fail, its exit status is not looked at, and tempdir is removed after it
OutputVideo ==
    /\ pc = "folded"
    /\ trace' = Append(trace, "output_video")
    /\ LET w == VideoWindow(calculator_result, img_list)
       IN  IF w.outcome = "raised"
           THEN /\ pc' = "raised"
                /\ copied' = w.copied
                /\ UNCHANGED <<clip, encoder, tempdir>>
           ELSE IF w.outcome = "none"
           THEN /\ pc' = "video"
                /\ copied' = w.copied
                /\ UNCHANGED <<clip, encoder, tempdir>>
           ELSE \/ /\ pc' = "video"
                   /\ copied' = w.copied
                   /\ tempdir' = "removed"
                   /\ \E encoded \in BOOLEAN :
                         /\ encoder' = IF encoded THEN "ok" ELSE "failed"
                         /\ clip' = IF encoded THEN "present" ELSE clip
                \/ /\ \E count \in 0..(Len(w.copied) - 1) :
                         copied' = SubSeq(w.copied, 1, count)
                   /\ pc' = "raised"
                   /\ tempdir' = "exists"
                   /\ UNCHANGED <<clip, encoder>>
    /\ UNCHANGED <<runs, output_fp, stat_file, validate_result, calculator_result,
                   waveform, img_list, uploaded, waveform_fp, folded,
                   resolution_error, last_detect, outlier_check_point, unitVars>>

\* lines 328-329
OutputWaveformInfo ==
    /\ pc = "video"
    /\ waveform = 1
    /\ trace' = Append(trace, "output_waveform_info")
    /\ LET w == WaveformInfo(calculator_result, img_list, waveform_fp)
       IN  /\ img_list' = w.frames
           /\ waveform_fp' = w.doc
           /\ pc' = IF w.raised THEN "raised" ELSE "waveform"
    /\ UNCHANGED <<runs, output_fp, stat_file, validate_result, calculator_result,
                   waveform, copied, encoder, clip, uploaded, folded, tempdir,
                   resolution_error, last_detect, outlier_check_point, unitVars>>

\* lines 331-335: shutil.move of the clip raises when there is no clip
MoveClip ==
    /\ \/ pc = "video" /\ waveform # 1
       \/ pc = "waveform"
    /\ trace' = Append(trace, "move")
    /\ IF clip = "present"
       THEN /\ clip' = "moved"
            /\ uploaded' = TRUE
            /\ pc' = "done"
       ELSE /\ UNCHANGED <<clip, uploaded>>
            /\ pc' = "raised"
    /\ UNCHANGED <<runs, output_fp, stat_file, validate_result, calculator_result,
                   waveform, img_list, copied, encoder, waveform_fp, folded,
                   tempdir, resolution_error, last_detect, outlier_check_point,
                   unitVars>>

Next ==
    \/ Calculate
    \/ ReturnInvalid
    \/ RunConverter
    \/ RunSample
    \/ RunGenerators
    \/ WriteFpsStat
    \/ ReturnNoResult
    \/ OutputResult
    \/ OutputVideo
    \/ OutputWaveformInfo
    \/ MoveClip

Spec == Init /\ [][Next]_vars

(* ------------- calculate after the generators, step by step ----------- *)

\* the frames of a frame store of length n
FrameStore(n) == 0..(n - 1)

\* what calculate has done when the generators have returned (lines 275-317)
GeneratedTrace == <<"validate_data", "converter", "sample", "generator", "fps_stat">>

\* line 319 of a run whose generators returned a result, for every frame
\* store and every margin
StepsInit ==
    /\ pc = "stat"
    /\ runs = 1
    /\ \E order \in ValidatorOrders :
          validate_result = ValidateData(order, [n \in ValidatorNames |-> TRUE], {})
    /\ stat_file = [DumpDataToJsonFile(validate_result) EXCEPT !.fps_stat = TRUE]
    /\ calculator_result \in GeneratorResults \ {<<>>}
    /\ waveform \in {0, 1}
    /\ \E n \in 1..(MaxTime + 2) : img_list = FrameStore(n)
    /\ copied = <<>>
    /\ encoder = "not_run"
    /\ clip = "absent"
    /\ uploaded = FALSE
    /\ waveform_fp = NoWaveform
    /\ trace = GeneratedTrace
    /\ folded = <<>>
    /\ tempdir = "none"
    /\ resolution_error = ""
    /\ last_detect = NoDetect
    /\ output_fp \in {[state |-> "missing", result |-> NoRecord],
                      [state |-> "corrupt", result |-> NoRecord]}
    /\ outlier_check_point = DEFAULT_OUTLIER_CHECK_POINT
    /\ extended_range \in 0..MaxMargin
    /\ start_index = 0
    /\ end_index = -1
    /\ img_index = 0
    /\ GenIdle
    /\ ProcIdle

\* lines 163-243: output_result up to the write of the results document
StepWriteResult ==
    /\ pc = "stat"
    /\ calculator_result # <<>>
    /\ LET read == ReadResult(output_fp)
           run_time_dict == RunTimeDict(calculator_result, runs)
           fold == Fold(read.result, run_time_dict, outlier_check_point)
       IN  IF read.raised \/ fold.raised
           THEN /\ pc' = "raised"
                /\ UNCHANGED <<output_fp, folded, last_detect, trace>>
           ELSE /\ output_fp' = [state |-> "ok", result |-> fold.rec]
                /\ folded' = Append(folded, run_time_dict.run_time)
                /\ last_detect' = [detected |-> fold.detected,
                                   tmp_outlier |-> fold.tmp_outlier]
                /\ trace' = Append(trace, "write_result")
                /\ pc' = "result_written"
    /\ UNCHANGED <<runs, stat_file, validate_result, calculator_result, waveform,
                   img_list, copied, encoder, clip, uploaded, waveform_fp, tempdir,
                   resolution_error, outlier_check_point, unitVars>>

\* lines 246-250: time_list_counter goes into the status document
StepTimeListCounter ==
    /\ pc = "result_written"
    /\ IF stat_file.exists
       THEN /\ stat_file' = [stat_file EXCEPT
                   !.time_list_counter = Len(output_fp.result.time_list)]
            /\ trace' = Append(trace, "time_list_counter")
            /\ pc' = "folded"
       ELSE /\ pc' = "raised"
            /\ UNCHANGED <<stat_file, trace>>
    /\ UNCHANGED <<runs, output_fp, validate_result, calculator_result, waveform,
                   img_list, copied, encoder, clip, uploaded, waveform_fp, folded,
                   tempdir, resolution_error, last_detect, outlier_check_point,
                   unitVars>>

\* StepVideoLookup started before time_list_counter is updated
StepVideoLookupBeforeCounter ==
    /\ pc = "result_written"
    /\ trace' = Append(trace, "output_video")
    /\ LET r == VideoRange(calculator_result, img_list, extended_range)
       IN  IF r.outcome = "range"
           THEN /\ start_index' = r.first
                /\ end_index' = r.last
                /\ img_index' = r.first
                /\ tempdir' = "exists"
                /\ pc' = "copying"
           ELSE /\ pc' = IF r.outcome = "none" THEN "video" ELSE "raised"
                /\ UNCHANGED <<start_index, end_index, img_index, tempdir>>
    /\ UNCHANGED <<runs, output_fp, stat_file, validate_result, calculator_result,
                   waveform, img_list, copied, encoder, clip, uploaded, waveform_fp,
                   folded, resolution_error, last_detect, outlier_check_point,
                   extended_range, genVars, procVars>>

\* lines 123-144: output_video finds the window and makes tempdir
StepVideoLookup ==
    /\ pc = "folded"
    /\ trace' = Append(trace, "output_video")
    /\ LET r == VideoRange(calculator_result, img_list, extended_range)
       IN  IF r.outcome = "range"
           THEN /\ start_index' = r.first
                /\ end_index' = r.last
                /\ img_index' = r.first
                /\ tempdir' = "exists"
                /\ pc' = "copying"
           ELSE /\ pc' = IF r.outcome = "none" THEN "video" ELSE "raised"
                /\ UNCHANGED <<start_index, end_index, img_index, tempdir>>
    /\ UNCHANGED <<runs, output_fp, stat_file, validate_result, calculator_result,
                   waveform, img_list, copied, encoder, clip, uploaded, waveform_fp,
                   folded, resolution_error, last_detect, outlier_check_point,
                   extended_range, genVars, procVars>>

\* lines 145-149: one turn of the copy loop; the copy is named by count, the
\* number of frames copied so far; shutil.copyfile may raise
StepCopyFrame ==
    /\ pc = "copying"
    /\ img_index <= end_index
    /\ \E copy_ok \in BOOLEAN :
          IF copy_ok
          THEN /\ copied' = Append(copied, SortedListing(img_list)[img_index + 1])
               /\ img_index' = img_index + 1
               /\ pc' = "copying"
          ELSE /\ pc' = "raised"
               /\ UNCHANGED <<copied, img_index>>
    /\ UNCHANGED <<runs, output_fp, stat_file, validate_result, calculator_result,
                   waveform, img_list, encoder, clip, uploaded, waveform_fp, trace,
                   folded, tempdir, resolution_error, last_detect,
                   outlier_check_point, extended_range, start_index, end_index,
                   genVars, procVars>>

\* lines 151-157: the loop is over and the encoder runs; os.system returns
\* its exit status, which is not looked at
StepEncode ==
    /\ pc = "copying"
    /\ img_index > end_index
    /\ \E encoded \in BOOLEAN :
          /\ encoder' = IF encoded THEN "ok" ELSE "failed"
          /\ clip' = IF encoded THEN "present" ELSE clip
    /\ pc' = "encoded"
    /\ UNCHANGED <<runs, output_fp, stat_file, validate_result, calculator_result,
                   waveform, img_list, copied, uploaded, waveform_fp, trace, folded,
                   tempdir, resolution_error, last_detect, outlier_check_point,
                   unitVars>>

\* line 158: shutil.rmtree(tempdir)
StepRmtree ==
    /\ pc = "encoded"
    /\ tempdir' = "removed"
    /\ pc' = "video"
    /\ UNCHANGED <<runs, output_fp, stat_file, validate_result, calculator_result,
                   waveform, img_list, copied, encoder, clip, uploaded, waveform_fp,
                   trace, folded, resolution_error, last_detect,
                   outlier_check_point, unitVars>>

NextSteps ==
    \/ StepWriteResult
    \/ StepTimeListCounter
    \/ StepVideoLookup
    \/ StepCopyFrame
    \/ StepEncode
    \/ StepRmtree
    \/ OutputWaveformInfo
    \/ MoveClip

SpecSteps == StepsInit /\ [][NextSteps]_vars

(* ------------- output_result, run after run on one document ----------- *)

\* the results of the runs that are folded: a start marker at frame 1 and an
\* end marker at frame 1 .. MaxFoldTime (run_time 0 .. MaxFoldTime - 1)
FoldResults ==
    {<<[name |-> "start", time_seq |-> 1], [name |-> "end", time_seq |-> t]>> :
        t \in 1..MaxFoldTime}

\* no run was made yet; the status document holds a passed validation, and
\* output_result is given any checkpoint
FoldInit ==
    /\ pc = "idle"
    /\ runs = 0
    /\ output_fp \in {[state |-> "missing", result |-> NoRecord],
                      [state |-> "corrupt", result |-> NoRecord]}
    /\ \E order \in ValidatorOrders :
          validate_result = ValidateData(order, [n \in ValidatorNames |-> TRUE], {})
    /\ stat_file = [DumpDataToJsonFile(validate_result) EXCEPT !.fps_stat = TRUE]
    /\ calculator_result = <<>>
    /\ waveform = 0
    /\ img_list = AllFrames
    /\ copied = <<>>
    /\ encoder = "not_run"
    /\ clip = "absent"
    /\ uploaded = FALSE
    /\ waveform_fp = NoWaveform
    /\ trace = <<>>
    /\ folded = <<>>
    /\ tempdir = "none"
    /\ resolution_error = ""
    /\ last_detect = NoDetect
    /\ outlier_check_point \in 1..MaxCheckPoint
    /\ StepIdle
    /\ GenIdle
    /\ ProcIdle

\* lines 266-319: the next run of the test method comes to output_result
\* with the result of its generators
NextRun ==
    /\ pc \in {"idle", "folded", "raised"}
    /\ runs < MaxFolds
    /\ runs' = runs + 1
    /\ calculator_result' \in FoldResults
    /\ trace' = GeneratedTrace
    /\ last_detect' = NoDetect
    /\ pc' = "stat"
    /\ UNCHANGED <<output_fp, stat_file, validate_result, waveform, img_list,
                   copied, encoder, clip, uploaded, waveform_fp, folded, tempdir,
                   resolution_error, outlier_check_point, unitVars>>

NextFold ==
    \/ NextRun
    \/ OutputResult

SpecFold == FoldInit /\ [][NextFold]_vars

(* --------------------------- run_generators --------------------------- *)

\* the generators a configuration can name (line 290 and the comment of
\* line 293 name two; the third stands for a metric derived from them)
GeneratorNames ==
    {DEFAULT_DCTRUNTIME_GENERATOR_NAME, "SSIMRunTimeGenerator", "SpeedIndexGenerator"}

\* generator_settings.keys(): the configured generators, each once, in the
\* order the loop of line 90 enumerates them
GeneratorOrders ==
    {order \in UNION {[1..n -> GeneratorNames] : n \in 0..Cardinality(GeneratorNames)} :
        \A i, j \in DOMAIN order : order[i] = order[j] => i = j}

\* what generate_result of one generator returns: nothing, or its events
GeneratorOutputs == {<<>>, <<[name |-> "start", time_seq |-> 1]>>}

\* how many generators run_generators has called
Called == Cardinality(prior_results)

\* line 89 of a run_generators call made by calculate at line 302
GenInit ==
    /\ pc = "sampled"
    /\ runs = 1
    /\ output_fp \in {[state |-> "missing", result |-> NoRecord],
                      [state |-> "corrupt", result |-> NoRecord]}
    /\ \E order \in ValidatorOrders :
          validate_result = ValidateData(order, [n \in ValidatorNames |-> TRUE], {})
    /\ stat_file = DumpDataToJsonFile(validate_result)
    /\ calculator_result = <<>>
    /\ waveform \in {0, 1}
    /\ img_list = AllFrames
    /\ copied = <<>>
    /\ encoder = "not_run"
    /\ clip = "absent"
    /\ uploaded = FALSE
    /\ waveform_fp = NoWaveform
    /\ trace = <<"validate_data", "converter", "sample">>
    /\ folded = <<>>
    /\ tempdir = "none"
    /\ resolution_error = ""
    /\ last_detect = NoDetect
    /\ outlier_check_point = DEFAULT_OUTLIER_CHECK_POINT
    /\ StepIdle
    /\ generator_settings \in GeneratorOrders
    /\ generator_result = {}
    /\ prior_results = {}
    /\ ProcIdle

\* RunGenerator with every generator handed a fresh, empty map
RunGeneratorFreshMap ==
    /\ pc = "sampled"
    /\ Called < Len(generator_settings)
    /\ LET generator_name == generator_settings[Called + 1]
       IN  \E resolved \in BOOLEAN :
              IF resolved
              THEN /\ prior_results' = prior_results \cup
                         {[name |-> generator_name, prior |-> {}]}
                   /\ \E output \in GeneratorOutputs :
                         generator_result' = generator_result \cup
                             {[name |-> generator_name, result |-> output]}
                   /\ UNCHANGED <<pc, resolution_error>>
              ELSE /\ pc' = "raised"
                   /\ resolution_error' = generator_name
                   /\ UNCHANGED <<generator_result, prior_results>>
    /\ UNCHANGED <<runs, output_fp, stat_file, validate_result, calculator_result,
                   waveform, img_list, copied, encoder, clip, uploaded, waveform_fp,
                   trace, folded, tempdir, last_detect, outlier_check_point,
                   generator_settings, stepVars, procVars>>

\* lines 90-94: one turn of the loop; the generator is resolved, called with
\* generator_result as it is at the call, and its result is stored under its
\* name.  prior_results keeps what each generator was handed
RunGenerator ==
    /\ pc = "sampled"
    /\ Called < Len(generator_settings)
    /\ LET generator_name == generator_settings[Called + 1]
       IN  \E resolved \in BOOLEAN :
              IF resolved
              THEN /\ prior_results' = prior_results \cup
                         {[name |-> generator_name, prior |-> generator_result]}
                   /\ \E output \in GeneratorOutputs :
                         generator_result' = generator_result \cup
                             {[name |-> generator_name, result |-> output]}
                   /\ UNCHANGED <<pc, resolution_error>>
              ELSE /\ pc' = "raised"
                   /\ resolution_error' = generator_name
                   /\ UNCHANGED <<generator_result, prior_results>>
    /\ UNCHANGED <<runs, output_fp, stat_file, validate_result, calculator_result,
                   waveform, img_list, copied, encoder, clip, uploaded, waveform_fp,
                   trace, folded, tempdir, last_detect, outlier_check_point,
                   generator_settings, stepVars, procVars>>

\* line 98: the loop is over, run_generators returns generator_result
ReturnGeneratorResult ==
    /\ pc = "sampled"
    /\ Called = Len(generator_settings)
    /\ pc' = "generators_returned"
    /\ trace' = Append(trace, "generator")
    /\ UNCHANGED <<runs, output_fp, stat_file, validate_result, calculator_result,
                   waveform, img_list, copied, encoder, clip, uploaded, waveform_fp,
                   folded, tempdir, resolution_error, last_detect,
                   outlier_check_point, unitVars>>

NextGenerators ==
    \/ RunGenerator
    \/ ReturnGeneratorResult

SpecGenerators == GenInit /\ [][NextGenerators]_vars

(* ------------- output_result called by two runs at a time ------------- *)

\* the runs (test processes) that call output_result on the same document
Procs == {1, 2}

\* the results documents the two runs can find: none, one that is not JSON,
\* or the document an earlier run of the test method has written
EarlierDocuments ==
    {[state |-> "missing", result |-> NoRecord],
     [state |-> "corrupt", result |-> NoRecord]}
    \cup {[state |-> "ok", result |-> FoldNew(RunTimeDict(result, 0))] :
              result \in FoldResults}

\* both runs are at line 163, each with the result of its own generators
ConcInit ==
    /\ pc = "stat"
    /\ output_fp \in EarlierDocuments
    /\ runs = output_fp.result.total_run_no
    /\ folded = IF output_fp.result.present
                THEN <<output_fp.result.total_time>> ELSE <<>>
    /\ \E order \in ValidatorOrders :
          validate_result = ValidateData(order, [n \in ValidatorNames |-> TRUE], {})
    /\ stat_file = [DumpDataToJsonFile(validate_result) EXCEPT !.fps_stat = TRUE]
    /\ calculator_result = <<>>
    /\ waveform = 0
    /\ img_list = AllFrames
    /\ copied = <<>>
    /\ encoder = "not_run"
    /\ clip = "absent"
    /\ uploaded = FALSE
    /\ waveform_fp = NoWaveform
    /\ trace = GeneratedTrace
    /\ tempdir = "none"
    /\ resolution_error = ""
    /\ last_detect = NoDetect
    /\ outlier_check_point = DEFAULT_OUTLIER_CHECK_POINT
    /\ StepIdle
    /\ GenIdle
    /\ proc_pc = [p \in Procs |-> "start"]
    /\ proc_result = [p \in Procs |-> NoRecord]
    /\ \E results \in [Procs -> FoldResults] :
          proc_run = [p \in Procs |-> RunTimeDict(results[p], runs + p)]

\* lines 163-167: the run loads the document into its own memory
ProcRead(p) ==
    /\ proc_pc[p] = "start"
    /\ LET read == ReadResult(output_fp)
       IN  IF read.raised
           THEN /\ proc_pc' = [proc_pc EXCEPT ![p] = "raised"]
                /\ UNCHANGED proc_result
           ELSE /\ proc_pc' = [proc_pc EXCEPT ![p] = "read"]
                /\ proc_result' = [proc_result EXCEPT ![p] = read.result]
    /\ UNCHANGED <<calcVars, stepVars, genVars, proc_run>>

\* lines 169-243: the run folds its sample into what it loaded and writes
\* the whole document back
ProcWrite(p) ==
    /\ proc_pc[p] = "read"
    /\ LET fold == Fold(proc_result[p], proc_run[p], outlier_check_point)
       IN  IF fold.raised
           THEN /\ proc_pc' = [proc_pc EXCEPT ![p] = "raised"]
                /\ UNCHANGED <<output_fp, folded, proc_result>>
           ELSE /\ output_fp' = [state |-> "ok", result |-> fold.rec]
                /\ folded' = Append(folded, proc_run[p].run_time)
                /\ proc_result' = [proc_result EXCEPT ![p] = fold.rec]
                /\ proc_pc' = [proc_pc EXCEPT ![p] = "written"]
    /\ UNCHANGED <<pc, runs, stat_file, validate_result, calculator_result,
                   waveform, img_list, copied, encoder, clip, uploaded, waveform_fp,
                   trace, tempdir, resolution_error, last_detect,
                   outlier_check_point, stepVars, genVars, proc_run>>

\* lines 246-250: the run puts the length of its time_list into the status
\* document
ProcTimeListCounter(p) ==
    /\ proc_pc[p] = "written"
    /\ stat_file' = [stat_file EXCEPT
           !.time_list_counter = Len(proc_result[p].time_list)]
    /\ proc_pc' = [proc_pc EXCEPT ![p] = "done"]
    /\ UNCHANGED <<pc, runs, output_fp, validate_result, calculator_result,
                   waveform, img_list, copied, encoder, clip, uploaded, waveform_fp,
                   trace, folded, tempdir, resolution_error, last_detect,
                   outlier_check_point, stepVars, genVars, proc_result, proc_run>>

NextConcurrent ==
    \/ \E p \in Procs : ProcRead(p)
    \/ \E p \in Procs : ProcWrite(p)
    \/ \E p \in Procs : ProcTimeListCounter(p)

SpecConcurrent == ConcInit /\ [][NextConcurrent]_vars

TypeOK ==
    /\ pc \in Ended \cup {"validated", "converted", "sampled", "generated",
                          "stat", "folded", "video", "waveform",
                          "result_written", "copying", "encoded",
                          "generators_returned"}
    /\ runs \in 0..Max(MaxRuns, MaxFolds)
    /\ output_fp.state \in {"missing", "corrupt", "ok"}
    /\ clip \in {"absent", "present", "moved"}
    /\ waveform \in {0, 1}
    /\ encoder \in {"not_run", "ok", "failed"}
    /\ img_list \subseteq AllFrames
    /\ tempdir \in {"none", "exists", "removed"}
    /\ resolution_error \in {""} \cup ValidatorNames \cup GeneratorNames
           \cup {DEFAULT_CV2_CONVERTER_NAME, DEFAULT_SAMPLE_CONVERTER_NAME}
    /\ last_detect.detected \in BOOLEAN
    /\ outlier_check_point \in 1..Max(MaxCheckPoint, DEFAULT_OUTLIER_CHECK_POINT)
    /\ extended_range \in 0..Max(MaxMargin, DEFAULT_VIDEO_RECORDING_FPS)
    /\ start_index \in 0..(MaxTime + 1)
    /\ end_index \in -1..(MaxTime + 1)
    /\ img_index \in 0..(MaxTime + 2)
    /\ \A i \in 1..Len(generator_settings) : generator_settings[i] \in GeneratorNames
    /\ \A p \in DOMAIN proc_pc :
          proc_pc[p] \in {"start", "read", "written", "done", "raised"}

(* ----------------------------- properties ------------------------------ *)

\* the step calculate executed last in the current run
LastStep == IF trace = <<>> THEN "" ELSE trace[Len(trace)]

\* the record of the test method in the persisted results document
Record == output_fp.result

RECURSIVE MinRunTime(_)
MinRunTime(s) ==
    IF Len(s) = 1 THEN s[1].run_time
    ELSE Min(s[1].run_time, MinRunTime(Tail(s)))

RECURSIVE MaxRunTime(_)
MaxRunTime(s) ==
    IF Len(s) = 1 THEN s[1].run_time
    ELSE Max(s[1].run_time, MaxRunTime(Tail(s)))

\* the runs (folder names) that own a sample of a sequence
Folders(s) == {s[i].folder : i \in 1..Len(s)}

HasStart(evs) == MarkerFp(evs, "start") # NoneFp
HasEnd(evs) == MarkerFp(evs, "end") # NoneFp

\* a non-empty generator result whose markers are both absent or coincide
ZeroMeasurement(evs) ==
    /\ evs # <<>>
    /\ \/ ~HasStart(evs) /\ ~HasEnd(evs)
       \/ /\ HasStart(evs) /\ HasEnd(evs)
          /\ MarkerTime(evs, "start") = MarkerTime(evs, "end")

\* C1: after the k-th output_result call on a document that started empty,
\* the persisted record has total_run_no = k and total_time = the sum of the
\* run_time values of the k runs folded so far.
C1_TotalsFollowRuns ==
    output_fp.state = "ok" =>
        /\ Record.present
        /\ Record.total_run_no = Len(folded)
        /\ Record.total_time = SumSeq(folded)

C1_Witness ==
    /\ output_fp.state = "ok"
    /\ Len(folded) = 4
    /\ Record.total_time = 5
    /\ \E i \in 1..Len(folded) : folded[i] = 0

\* C2: after every output_result update total_run_no = error_no +
\* len(time_list) + len(outlier), and no run owns two samples of
\* time_list and outlier together.
C2_RunsPartitioned ==
    output_fp.state = "ok" =>
        /\ Record.total_run_no
              = Record.error_no + Len(Record.time_list) + Len(Record.outlier)
        /\ Cardinality(Folders(Record.time_list \o Record.outlier))
              = Len(Record.time_list) + Len(Record.outlier)

C2_Witness ==
    /\ output_fp.state = "ok"
    /\ Record.error_no > 0
    /\ Record.outlier # <<>>
    /\ Record.time_list # <<>>

\* C3: whenever time_list is non-empty after an output_result update,
\* min_time and max_time are the minimum and the maximum of the run_time
\* values of the samples in time_list.
C3_MinMaxOfTimeList ==
    (output_fp.state = "ok" /\ Record.time_list # <<>>) =>
        /\ Record.min_time = MinRunTime(Record.time_list)
        /\ Record.max_time = MaxRunTime(Record.time_list)

\* C4: a run whose events lack the start marker or lack the end marker is
\* folded with run_time 0, counted as an error, and gets no sample in
\* time_list.
C4_MissingMarkerIsError ==
    (pc = "folded" /\ (~HasStart(calculator_result) \/ ~HasEnd(calculator_result))) =>
        /\ RunTime(calculator_result) = 0
        /\ folded[Len(folded)] = 0
        /\ Record.error_no > 0
        /\ runs \notin Folders(Record.time_list \o Record.outlier)

\* C5: for a run with a start marker and no end marker output_video returns
\* without raising, having looked up and copied no frame, run no encoder and
\* produced no clip.
C5_StartOnlyNoClipNoError ==
    (LastStep = "output_video"
        /\ HasStart(calculator_result) /\ ~HasEnd(calculator_result)) =>
        /\ pc = "video"
        /\ copied = <<>>
        /\ encoder = "not_run"
        /\ clip = "absent"

\* C6: a zero-measurement run that output_result has folded never makes
\* calculate raise: every later step completes.
C6_ZeroMeasurementNeverFails ==
    (ZeroMeasurement(calculator_result) /\ output_fp.state = "ok"
        /\ \E i \in 1..Len(trace) : trace[i] = "output_result") =>
        pc # "raised"

\* C7: output_result treats a missing and a corrupt results document alike as
\* an empty one: the call does not raise and the document then holds a record
\* of the test method.
C7_MissingOrCorruptIsEmpty ==
    LastStep = "output_result" =>
        /\ pc = "folded"
        /\ output_fp.state = "ok"
        /\ Record.present

\* C8: a failing validate_data stopped at its first failing validator (every
\* validator run before it passed, none ran after it), and calculate then
\* executes no downstream stage: no conversion, sample matching, generator,
\* results update, video or waveform step of that run exists.
C8_FailedValidationStopsRun ==
    (pc # "idle" /\ ~validate_result.validate_result /\ resolution_error = "") =>
        /\ Len(validate_result.ran) = Cardinality(validate_result.entries) + 1
        /\ \A i \in 1..(Len(validate_result.ran) - 1) :
              validate_result.ran[i] \in validate_result.entries
        /\ validate_result.ran[Len(validate_result.ran)] \notin validate_result.entries
        /\ pc \in {"validated", "discarded"}
        /\ trace = <<"validate_data">>
        /\ img_list = {}
        /\ calculator_result = <<>>
        /\ copied = <<>>
        /\ encoder = "not_run"
        /\ clip = "absent"
        /\ ~waveform_fp.written

C8_Witness ==
    /\ pc = "discarded"
    /\ Len(validate_result.ran) = 1
    /\ output_fp.state = "ok"
    /\ Len(folded) = 2

\* C9 as stated: after a failing validate_data call the status document
\* records the failure of that run.
C9_FailureInStatusDocument ==
    (pc \in {"validated", "discarded"} /\ ~validate_result.validate_result) =>
        /\ stat_file.exists
        /\ ~stat_file.validate_result

\* C9, amended: a failing validate_data call leaves the status document as it
\* was (the diagnostic is only logged); a passing call writes the result of
\* every validator to it.
C9_OnlySuccessInStatusDocument ==
    [][(pc # "validated" /\ pc' = "validated") =>
          IF validate_result'.validate_result
          THEN /\ stat_file'.exists
               /\ stat_file'.validate_result
               /\ stat_file'.entries = ValidatorNames
          ELSE stat_file' = stat_file]_vars

C9_Witness ==
    /\ pc = "discarded"
    /\ ~validate_result.validate_result
    /\ stat_file.exists
    /\ stat_file.validate_result

\* C10: when the encoder run by output_video fails, calculate still completes
\* without raising.
C10_EncoderFailureNotFatal ==
    encoder = "failed" => pc # "raised"

\* the positions inside output_video at which tempdir is in use
InOutputVideo == {"copying", "encoded"}

\* C11: every scratch directory output_video creates is removed on the same
\* call, whether the encoder succeeds or fails: no output_video call that has
\* terminated, by a normal return or by an error, leaves its tempdir behind
C11_ScratchAlwaysRemoved ==
    (pc \notin InOutputVideo) => tempdir # "exists"

\* the window the margin gives around the start and end frames of the run,
\* in a frame store of length n
WindowFirst(evs, margin) == Max(0, MarkerFp(evs, "start") - margin)
WindowLast(evs, n, margin) == Min(n - 1, MarkerFp(evs, "end") + margin)

\* the copy loop of output_video has come to its end
CopyLoopOver ==
    \/ pc = "copying" /\ img_index > end_index
    \/ pc = "encoded"

\* C12: for every frame store of length L >= 1, every start and end frame in
\* it and every margin m >= 0, output_video copies exactly the frames
\* max(0, start - m) .. min(L - 1, end + m), reads no index outside 0 .. L - 1,
\* and numbers the copies from zero in frame order
C12_CopiesClampedWindow ==
    LET n == Cardinality(img_list)
        first == WindowFirst(calculator_result, extended_range)
        last == WindowLast(calculator_result, n, extended_range)
    IN  /\ (pc = "copying" /\ img_index <= end_index) => img_index \in 0..(n - 1)
        /\ CopyLoopOver =>
              /\ Len(copied) = Max(0, last - first + 1)
              /\ \A count \in 0..(Len(copied) - 1) :
                    /\ copied[count + 1] = first + count
                    /\ copied[count + 1] \in FrameStore(n)

\* C12 witness: a window with margin 2 that is cut at both ends of the
\* frame store has been copied
C12_Witness ==
    /\ CopyLoopOver
    /\ extended_range = 2
    /\ MarkerFp(calculator_result, "start") - extended_range < 0
    /\ MarkerFp(calculator_result, "end") + extended_range > Cardinality(img_list) - 1
    /\ Len(copied) = Cardinality(img_list)
    /\ Len(copied) >= 3

\* s is the beginning of t
IsPrefix(s, t) == Len(s) <= Len(t) /\ SubSeq(t, 1, Len(s)) = s

\* the number of samples the fold of the run appends to time_list
Appended == IF RunTime(calculator_result) = 0 THEN 0 ELSE 1

\* C13: each outlier re-aggregation conserves samples (the length of
\* time_list before it is the length after it plus the number of outliers it
\* newly moved out), and across all folds the outlier sequence only grows at
\* its end: no entry is removed or reordered
C13_ReaggregationConserves ==
    [][/\ IsPrefix(output_fp.result.outlier, output_fp'.result.outlier)
       /\ (pc = "stat" /\ pc' = "folded") =>
             Len(output_fp.result.time_list) + Appended
                 = Len(output_fp'.result.time_list)
                   + (Len(output_fp'.result.outlier) - Len(output_fp.result.outlier))]_vars

\* C13 witness: a re-aggregation has moved a sample to the end of an outlier
\* sequence that already held one
C13_Witness ==
    /\ pc = "folded"
    /\ last_detect.detected
    /\ last_detect.tmp_outlier # <<>>
    /\ Len(Record.outlier) > Len(last_detect.tmp_outlier)

\* what the detection pass returns when it changes nothing
Unchanged(time_list) == [time_list |-> time_list, outlier |-> <<>>]

C17_ReaggregationAtCheckpoint ==
    (pc = "folded") =>
        (last_detect.detected <=>
            Len(Record.time_list) + Len(last_detect.tmp_outlier)
                >= outlier_check_point)

\* C15: when the run has exactly two markers, at frame indices s <= e of the
\* frame store, output_waveform_info deletes exactly the frames with index < s
\* or index > e, retains exactly the frames s .. e, and the waveform data has
\* e - s difference values; when the run does not have exactly two markers,
\* no frame is deleted and no waveform document is written
C15_WaveformRetainsWindow ==
    [][(trace' = Append(trace, "output_waveform_info")) =>
          IF Len(calculator_result) = 2
          THEN LET s == calculator_result[1].time_seq
                   e == calculator_result[2].time_seq
               IN  (s <= e) =>
                      /\ img_list' = {f \in img_list : s <= f /\ f <= e}
                      /\ img_list' = s..e
                      /\ waveform_fp'.written
                      /\ waveform_fp'.img_list = s..e
                      /\ waveform_fp'.data = e - s
          ELSE /\ img_list' = img_list
               /\ waveform_fp' = waveform_fp
               /\ ~waveform_fp'.written]_vars

\* C15 witness: of a frame store of four frames, copied whole by
\* output_video, the waveform step has kept frames 1 and 2 and written one
\* difference value
C15_Witness ==
    /\ LastStep = "output_waveform_info"
    /\ Len(calculator_result) = 2
    /\ Len(copied) = 4
    /\ img_list = {1, 2}
    /\ waveform_fp.written
    /\ waveform_fp.data = 1

\* C16: a stage resolution failure, for any validator, converter, sample or
\* generator stage, aborts the run before any side effect: when the error is
\* raised no frame has been extracted, no status or results document has been
\* written and no earlier stage unit has been executed
C16_ResolutionAbortsBeforeSideEffects ==
    (resolution_error # "") =>
        /\ pc = "raised"
        /\ img_list = {}
        /\ ~validate_result.dumped
        /\ validate_result.ran = <<>>
        /\ trace = <<"validate_data">>

\* the place of a generator in the configured order
Place(generator_name) ==
    CHOOSE k \in 1..Len(generator_settings) : generator_settings[k] = generator_name

\* the names under which a map holds results
Keys(map) == {entry.name : entry \in map}

\* C18: run_generators calls the configured generators strictly one after
\* another, and the k-th generator is handed a prior-results map that holds
\* exactly the results of generators 1 .. k-1, each under its own name: it
\* sees every earlier generator's contribution and never a later one's
C18_GeneratorsSeePriorResults ==
    /\ Keys(prior_results) = {generator_settings[k] : k \in 1..Called}
    /\ Keys(generator_result) = Keys(prior_results)
    /\ \A call \in prior_results :
          /\ Keys(call.prior) =
                {generator_settings[k] : k \in 1..(Place(call.name) - 1)}
          /\ call.prior = {entry \in generator_result : entry.name \in Keys(call.prior)}

\* C18 witness: three generators have run and run_generators has returned;
\* the third was handed the results of the other two, one of them not empty
C18_Witness ==
    /\ pc = "generators_returned"
    /\ Len(generator_settings) = 3
    /\ \E call \in prior_results :
          /\ Cardinality(call.prior) = 2
          /\ \E entry \in call.prior : entry.result # <<>>

\* C19: each output_result update has the results document to itself from
\* its read to its write: when two runs call output_result at the same time
\* on the same document, after both are done the document reflects both runs
\* (total_run_no has grown by 2, no update is lost)
C19_NoLostUpdate ==
    (\A p \in Procs : proc_pc[p] = "done") =>
        /\ Record.total_run_no = runs + Cardinality(Procs)
        /\ Record.total_time = SumSeq(folded)

\* the steps of calculate after the generators, in the order of the code
StepOrder ==
    <<"write_result", "time_list_counter", "output_video",
      "output_waveform_info", "move">>

\* the place of a step in StepOrder
Rank(step) == CHOOSE k \in 1..Len(StepOrder) : StepOrder[k] = step

\* the steps the run has made since its generators returned
StepsMade == SubSeq(trace, Len(GeneratedTrace) + 1, Len(trace))

Made(step) == \E i \in 1..Len(StepsMade) : StepsMade[i] = step

\* C20: within one calculate run the steps after the generators come in a
\* fixed order: the results document is persisted before time_list_counter
\* goes into the status document, both before the video range extractor
\* starts, and the waveform pruning of the frame store starts only after the
\* extractor has copied its whole window; pruning never removes a frame the
\* extractor has yet to copy
C20_FixedStepOrder ==
    /\ \A i \in 1..Len(StepsMade) :
          /\ i > 1 => Rank(StepsMade[i - 1]) < Rank(StepsMade[i])
          /\ Rank(StepsMade[i]) <= 3 => Rank(StepsMade[i]) = i
    /\ Made("write_result") <=> output_fp.state = "ok"
    /\ Made("time_list_counter") <=> stat_file.time_list_counter # -1
    /\ (tempdir # "none" \/ copied # <<>>) => Made("output_video")
    /\ (Made("output_waveform_info") \/ waveform_fp.written) =>
          /\ Made("output_video")
          /\ pc \notin InOutputVideo
          /\ tempdir # "exists"
          /\ tempdir = "removed" => Len(copied) = end_index - start_index + 1
    /\ (pc = "copying") =>
          /\ ~waveform_fp.written
          /\ \A i \in img_index..end_index : i \in img_list

\* C20 witness: a run has made all five steps, the extractor has copied a
\* window of several frames and the waveform step has pruned the frame store
C20_Witness ==
    /\ StepsMade = StepOrder
    /\ Len(copied) >= 3
    /\ waveform_fp.written
    /\ Cardinality(img_list) < Len(copied)

====
